---- MODULE Spec2Model ----
(***************************************************************************)
(* theOffice: the Room/Employee assignment model of Nexus Software         *)
(* Solutions.  Employee and EmployeeFactory (src/employees.py),            *)
(* OfficeBuilder and Room (src/office_builder.py) and the coordinating     *)
(* NexusOffice (src/nexus.py).  Console rendering is kept only as the      *)
(* level and text of the messages a call hands to Display.                 *)
(***************************************************************************)
EXTENDS Integers, Sequences, FiniteSets, TLC

VARIABLES
  office_builder,      \* NexusOffice.office_builder: None or Some(OfficeBuilder record)
  employees,           \* NexusOffice.employees: sequence of Employee records
  initialized,         \* NexusOffice.initialized
  projects_completed,  \* NexusOffice.projects_completed
  op,                  \* the last call made: [name, args]
  ret,                 \* its return value
  exc,                 \* the exception it raised, NoExc when it returned
  shown,               \* the Display messages it emitted
  report,              \* the lines printed by _assign_employees_to_rooms
  results,             \* per room name, the results of the assign calls naming it
  projects_started,    \* number of start_project calls made on the initialized office
  calls,               \* number of calls made so far
  exclusive,           \* whether a caller holds exclusive access for the whole call
  pc,                  \* per concurrent caller, the statement it executes next
  locals               \* per concurrent caller, the arguments and locals of its call

vars == <<office_builder, employees, initialized, projects_completed,
          op, ret, exc, shown, report, results, projects_started, calls,
          exclusive, pc, locals>>

\* ---------------------------------------------------------------- bounds
MaxCalls == 5
NumDriven == 3
MaxBuilderCalls == 7
MaxRoster == 2
MaxFindCalls == 2
MaxQueryRoster == 2
MaxQueryCalls == 1
MaxSeatingCalls == 5
NumThreads == 2
MaxRaceCalls == 5

\* ------------------------------------------------------- Python values
\* Optional[T]: None is the empty tuple, a present value x is <<x>>.
None == <<>>
Some(x) == <<x>>
NoExc == "NoExc"
Msg(level, text) == [level |-> level, text |-> text]
\* A printed line that carries a number.
Count(level, text, n) == [level |-> level, text |-> text, n |-> n]

Min(a, b) == IF a <= b THEN a ELSE b

\* ------------------------------------------------------------ Employee
\* The dataclass with its defaults: current_task None, available True.
\* role, personality_traits and quirks are descriptive strings no
\* operation reads; they are left out.
Employee(name, team, skills, location) ==
  [name |-> name, team |-> team, skills |-> skills, location |-> location,
   current_task |-> None, available |-> TRUE]

\* Employee.assign_task with the availability write dropped.
assign_task_keeps_available(e, task) ==
  [e EXCEPT !.current_task = Some(task)]

assign_task(e, task) ==
  [e EXCEPT !.current_task = Some(task), !.available = FALSE]

\* Employee.complete_task returning None instead of the cleared task.
complete_task_returns_none(e) ==
  [emp |-> [e EXCEPT !.current_task = None, !.available = TRUE], ret |-> None]

\* Employee.complete_task that marks the employee available only when a
\* task was cleared, and busy otherwise.
complete_task_flips(e) ==
  [emp |-> [e EXCEPT !.current_task = None, !.available = (e.current_task # None)],
   ret |-> e.current_task]

complete_task(e) ==
  [emp |-> [e EXCEPT !.current_task = None, !.available = TRUE],
   ret |-> e.current_task]

\* ----------------------------------------------------- EmployeeFactory
create_all_employees ==
  <<
    Employee("Marcus Chen", "ARCHITECTURE", <<"ARCHITECTURE", "PYTHON", "LEADERSHIP", "CLOUD">>, "Architecture Lead Office"),
    Employee("Sarah Williams", "FRONTEND", <<"TYPESCRIPT", "REACT", "JAVASCRIPT", "LEADERSHIP">>, "Frontend Team Pod"),
    Employee("Jake Morrison", "FRONTEND", <<"REACT", "JAVASCRIPT", "UI">>, "Frontend Team Pod"),
    Employee("Priya Patel", "FRONTEND", <<"REACT", "TYPESCRIPT", "DESIGN">>, "Frontend Team Pod"),
    Employee("Tom Bradley", "FRONTEND", <<"JAVASCRIPT", "REACT", "TESTING">>, "Frontend Team Pod"),
    Employee("Lin Zhang", "FRONTEND", <<"JAVASCRIPT", "REACT">>, "Frontend Team Pod"),
    Employee("Roberto Silva", "BACKEND", <<"PYTHON", "NODEJS", "DATABASES", "LEADERSHIP">>, "Backend Team Pod"),
    Employee("Emma Chen", "BACKEND", <<"PYTHON", "DATABASES", "CLOUD">>, "Backend Team Pod"),
    Employee("David Park", "BACKEND", <<"PYTHON", "NODEJS", "DATABASES">>, "Backend Team Pod"),
    Employee("Jessica Park", "QA", <<"TESTING", "PYTHON", "LEADERSHIP">>, "QA Testing Lab"),
    Employee("Ahmed Hassan", "QA", <<"TESTING", "PYTHON", "JAVASCRIPT">>, "QA Testing Lab"),
    Employee("Natasha Volkov", "QA", <<"TESTING", "PYTHON">>, "QA Testing Lab"),
    Employee("Kevin O'Brien", "DEVOPS", <<"DEVOPS", "CLOUD", "SECURITY", "LEADERSHIP">>, "DevOps Pod"),
    Employee("Raj Kumar", "DEVOPS", <<"DEVOPS", "CLOUD", "PYTHON">>, "DevOps Pod"),
    Employee("Sofia Rodriguez", "DEVOPS", <<"DEVOPS", "CLOUD", "SECURITY">>, "DevOps Pod"),
    Employee("Diana Foster", "PRODUCT", <<"PROJECT_MANAGEMENT", "LEADERSHIP", "COMMUNICATION">>, "Product Director Office"),
    Employee("Ben Carter", "PRODUCT", <<"PROJECT_MANAGEMENT", "COMMUNICATION">>, "Product Director Office"),
    Employee("Michelle Torres", "PRODUCT", <<"PROJECT_MANAGEMENT", "COMMUNICATION", "DATA_ANALYSIS">>, "Product Director Office"),
    Employee("Dr. James Liu", "DATA", <<"PYTHON", "DATA_ANALYSIS", "LEADERSHIP">>, "Data Analytics Suite"),
    Employee("Sandra Kim", "DATA", <<"PYTHON", "DATA_ANALYSIS">>, "Data Analytics Suite"),
    Employee("Carlos Mendoza", "DATA", <<"PYTHON", "DATABASES", "DATA_ANALYSIS">>, "Data Analytics Suite"),
    Employee("Grace Thompson", "CUSTOMER_SUCCESS", <<"COMMUNICATION", "PROJECT_MANAGEMENT">>, "Reception"),
    Employee("Antoine Dubois", "CUSTOMER_SUCCESS", <<"COMMUNICATION">>, "Reception"),
    Employee("Yuki Tanaka", "CUSTOMER_SUCCESS", <<"COMMUNICATION", "TESTING">>, "Reception"),
    Employee("Alexandra Morrison", "EXECUTIVE", <<"LEADERSHIP", "ARCHITECTURE", "PYTHON", "COMMUNICATION">>, "CTO Office"),
    Employee("Dmitri Volkov", "SECURITY", <<"SECURITY", "PYTHON", "CLOUD">>, "Server Room"),
    Employee("Vanessa Wright", "SECURITY", <<"SECURITY", "PYTHON", "TESTING">>, "Server Room"),
    Employee("Paulo Santos", "DESIGN", <<"DESIGN", "UI", "UX", "LEADERSHIP">>, "Design Studio"),
    Employee("Katie Lin", "DESIGN", <<"UI", "DESIGN">>, "Design Studio"),
    Employee("Amit Shah", "DESIGN", <<"UX", "DESIGN", "COMMUNICATION">>, "Design Studio"),
    Employee("Bobby Chen", "INTERN", <<"PYTHON", "JAVASCRIPT">>, "Frontend Team Pod"),
    Employee("Rachel Green", "FRONTEND", <<"REACT", "JAVASCRIPT">>, "Frontend Team Pod"),
    Employee("Michael Scott", "PRODUCT", <<"PROJECT_MANAGEMENT", "COMMUNICATION">>, "Product Director Office"),
    Employee("Dwight Schrute", "SECURITY", <<"SECURITY", "TESTING">>, "Server Room"),
    Employee("Jim Halpert", "BACKEND", <<"PYTHON", "DATABASES">>, "Backend Team Pod"),
    Employee("Pam Beesly", "DESIGN", <<"UX", "COMMUNICATION">>, "Design Studio"),
    Employee("Stanley Hudson", "BACKEND", <<"PYTHON", "DATABASES">>, "Backend Team Pod"),
    Employee("Phyllis Vance", "CUSTOMER_SUCCESS", <<"COMMUNICATION">>, "Reception"),
    Employee("Angela Martin", "QA", <<"TESTING", "PYTHON">>, "QA Testing Lab"),
    Employee("Oscar Martinez", "DATA", <<"DATA_ANALYSIS", "PYTHON">>, "Data Analytics Suite"),
    Employee("Kevin Malone", "BACKEND", <<"PYTHON", "DATABASES">>, "Backend Team Pod"),
    Employee("Meredith Palmer", "DEVOPS", <<"DEVOPS", "CLOUD">>, "DevOps Pod"),
    Employee("Creed Bratton", "QA", <<"TESTING">>, "QA Testing Lab"),
    Employee("Ryan Howard", "PRODUCT", <<"PROJECT_MANAGEMENT", "DATA_ANALYSIS">>, "Product Director Office"),
    Employee("Kelly Kapoor", "CUSTOMER_SUCCESS", <<"COMMUNICATION">>, "Reception"),
    Employee("Toby Flenderson", "SECURITY", <<"SECURITY">>, "Server Room"),
    Employee("Darryl Philbin", "DEVOPS", <<"DEVOPS", "LEADERSHIP">>, "DevOps Pod")
  >>

\* The character contents of the str values the model uses (the 47 fixture
\* names and the query arguments), as tuples of one-character strings.
CharsOf ==
  "Marcus Chen" :> <<"M", "a", "r", "c", "u", "s", " ", "C", "h", "e", "n">> @@
  "Sarah Williams" :> <<"S", "a", "r", "a", "h", " ", "W", "i", "l", "l", "i", "a", "m", "s">> @@
  "Jake Morrison" :> <<"J", "a", "k", "e", " ", "M", "o", "r", "r", "i", "s", "o", "n">> @@
  "Priya Patel" :> <<"P", "r", "i", "y", "a", " ", "P", "a", "t", "e", "l">> @@
  "Tom Bradley" :> <<"T", "o", "m", " ", "B", "r", "a", "d", "l", "e", "y">> @@
  "Lin Zhang" :> <<"L", "i", "n", " ", "Z", "h", "a", "n", "g">> @@
  "Roberto Silva" :> <<"R", "o", "b", "e", "r", "t", "o", " ", "S", "i", "l", "v", "a">> @@
  "Emma Chen" :> <<"E", "m", "m", "a", " ", "C", "h", "e", "n">> @@
  "David Park" :> <<"D", "a", "v", "i", "d", " ", "P", "a", "r", "k">> @@
  "Jessica Park" :> <<"J", "e", "s", "s", "i", "c", "a", " ", "P", "a", "r", "k">> @@
  "Ahmed Hassan" :> <<"A", "h", "m", "e", "d", " ", "H", "a", "s", "s", "a", "n">> @@
  "Natasha Volkov" :> <<"N", "a", "t", "a", "s", "h", "a", " ", "V", "o", "l", "k", "o", "v">> @@
  "Kevin O'Brien" :> <<"K", "e", "v", "i", "n", " ", "O", "'", "B", "r", "i", "e", "n">> @@
  "Raj Kumar" :> <<"R", "a", "j", " ", "K", "u", "m", "a", "r">> @@
  "Sofia Rodriguez" :> <<"S", "o", "f", "i", "a", " ", "R", "o", "d", "r", "i", "g", "u", "e", "z">> @@
  "Diana Foster" :> <<"D", "i", "a", "n", "a", " ", "F", "o", "s", "t", "e", "r">> @@
  "Ben Carter" :> <<"B", "e", "n", " ", "C", "a", "r", "t", "e", "r">> @@
  "Michelle Torres" :> <<"M", "i", "c", "h", "e", "l", "l", "e", " ", "T", "o", "r", "r", "e", "s">> @@
  "Dr. James Liu" :> <<"D", "r", ".", " ", "J", "a", "m", "e", "s", " ", "L", "i", "u">> @@
  "Sandra Kim" :> <<"S", "a", "n", "d", "r", "a", " ", "K", "i", "m">> @@
  "Carlos Mendoza" :> <<"C", "a", "r", "l", "o", "s", " ", "M", "e", "n", "d", "o", "z", "a">> @@
  "Grace Thompson" :> <<"G", "r", "a", "c", "e", " ", "T", "h", "o", "m", "p", "s", "o", "n">> @@
  "Antoine Dubois" :> <<"A", "n", "t", "o", "i", "n", "e", " ", "D", "u", "b", "o", "i", "s">> @@
  "Yuki Tanaka" :> <<"Y", "u", "k", "i", " ", "T", "a", "n", "a", "k", "a">> @@
  "Alexandra Morrison" :> <<"A", "l", "e", "x", "a", "n", "d", "r", "a", " ", "M", "o", "r", "r", "i", "s", "o", "n">> @@
  "Dmitri Volkov" :> <<"D", "m", "i", "t", "r", "i", " ", "V", "o", "l", "k", "o", "v">> @@
  "Vanessa Wright" :> <<"V", "a", "n", "e", "s", "s", "a", " ", "W", "r", "i", "g", "h", "t">> @@
  "Paulo Santos" :> <<"P", "a", "u", "l", "o", " ", "S", "a", "n", "t", "o", "s">> @@
  "Katie Lin" :> <<"K", "a", "t", "i", "e", " ", "L", "i", "n">> @@
  "Amit Shah" :> <<"A", "m", "i", "t", " ", "S", "h", "a", "h">> @@
  "Bobby Chen" :> <<"B", "o", "b", "b", "y", " ", "C", "h", "e", "n">> @@
  "Rachel Green" :> <<"R", "a", "c", "h", "e", "l", " ", "G", "r", "e", "e", "n">> @@
  "Michael Scott" :> <<"M", "i", "c", "h", "a", "e", "l", " ", "S", "c", "o", "t", "t">> @@
  "Dwight Schrute" :> <<"D", "w", "i", "g", "h", "t", " ", "S", "c", "h", "r", "u", "t", "e">> @@
  "Jim Halpert" :> <<"J", "i", "m", " ", "H", "a", "l", "p", "e", "r", "t">> @@
  "Pam Beesly" :> <<"P", "a", "m", " ", "B", "e", "e", "s", "l", "y">> @@
  "Stanley Hudson" :> <<"S", "t", "a", "n", "l", "e", "y", " ", "H", "u", "d", "s", "o", "n">> @@
  "Phyllis Vance" :> <<"P", "h", "y", "l", "l", "i", "s", " ", "V", "a", "n", "c", "e">> @@
  "Angela Martin" :> <<"A", "n", "g", "e", "l", "a", " ", "M", "a", "r", "t", "i", "n">> @@
  "Oscar Martinez" :> <<"O", "s", "c", "a", "r", " ", "M", "a", "r", "t", "i", "n", "e", "z">> @@
  "Kevin Malone" :> <<"K", "e", "v", "i", "n", " ", "M", "a", "l", "o", "n", "e">> @@
  "Meredith Palmer" :> <<"M", "e", "r", "e", "d", "i", "t", "h", " ", "P", "a", "l", "m", "e", "r">> @@
  "Creed Bratton" :> <<"C", "r", "e", "e", "d", " ", "B", "r", "a", "t", "t", "o", "n">> @@
  "Ryan Howard" :> <<"R", "y", "a", "n", " ", "H", "o", "w", "a", "r", "d">> @@
  "Kelly Kapoor" :> <<"K", "e", "l", "l", "y", " ", "K", "a", "p", "o", "o", "r">> @@
  "Toby Flenderson" :> <<"T", "o", "b", "y", " ", "F", "l", "e", "n", "d", "e", "r", "s", "o", "n">> @@
  "Darryl Philbin" :> <<"D", "a", "r", "r", "y", "l", " ", "P", "h", "i", "l", "b", "i", "n">> @@
  "marcus chen" :> <<"m", "a", "r", "c", "u", "s", " ", "c", "h", "e", "n">> @@
  "MARCUS CHEN" :> <<"M", "A", "R", "C", "U", "S", " ", "C", "H", "E", "N">> @@
  "mArCuS cHeN" :> <<"m", "A", "r", "C", "u", "S", " ", "c", "H", "e", "N">> @@
  "Marcus" :> <<"M", "a", "r", "c", "u", "s">> @@
  "Marcus  Chen" :> <<"M", "a", "r", "c", "u", "s", " ", " ", "C", "h", "e", "n">> @@
  "Marcus Chen " :> <<"M", "a", "r", "c", "u", "s", " ", "C", "h", "e", "n", " ">> @@
  "kevin o'brien" :> <<"k", "e", "v", "i", "n", " ", "o", "'", "b", "r", "i", "e", "n">> @@
  "dr. james liu" :> <<"d", "r", ".", " ", "j", "a", "m", "e", "s", " ", "l", "i", "u">> @@
  "BOBBY CHEN" :> <<"B", "O", "B", "B", "Y", " ", "C", "H", "E", "N">> @@
  "bobby chen" :> <<"b", "o", "b", "b", "y", " ", "c", "h", "e", "n">> @@
  "Nobody" :> <<"N", "o", "b", "o", "d", "y">> @@
  "" :> <<>>

Chars(s) == CharsOf[s]

UpperCase == <<"A", "B", "C", "D", "E", "F", "G", "H", "I", "J", "K", "L", "M",
               "N", "O", "P", "Q", "R", "S", "T", "U", "V", "W", "X", "Y", "Z">>
LowerCase == <<"a", "b", "c", "d", "e", "f", "g", "h", "i", "j", "k", "l", "m",
               "n", "o", "p", "q", "r", "s", "t", "u", "v", "w", "x", "y", "z">>

\* str.lower() on ASCII text, character by character.
lower_char(c) ==
  IF \E k \in 1..Len(UpperCase) : UpperCase[k] = c
    THEN LowerCase[CHOOSE k \in 1..Len(UpperCase) : UpperCase[k] = c]
    ELSE c

lower(cs) == [k \in 1..Len(cs) |-> lower_char(cs[k])]

RECURSIVE FindFrom(_, _, _)
FindFrom(emps, name, i) ==
  IF i > Len(emps) THEN None
  ELSE IF lower(Chars(emps[i].name)) = lower(Chars(name)) THEN Some(i)
  ELSE FindFrom(emps, name, i + 1)

RECURSIVE FindExactFrom(_, _, _)
FindExactFrom(emps, name, i) ==
  IF i > Len(emps) THEN None
  ELSE IF Chars(emps[i].name) = Chars(name) THEN Some(i)
  ELSE FindExactFrom(emps, name, i + 1)

\* find_employee_by_name comparing the names as written, without lower().
find_employee_by_name_exact(emps, name) == FindExactFrom(emps, name, 1)

\* Returns the position of the matching Employee object in the list
\* (the reference the Python code returns), or None.
find_employee_by_name(emps, name) == FindFrom(emps, name, 1)

\* The members of the Team enumeration, in declaration order.
Teams == <<"ARCHITECTURE", "FRONTEND", "BACKEND", "QA", "DEVOPS", "PRODUCT", "DATA",
           "CUSTOMER_SUCCESS", "EXECUTIVE", "SECURITY", "DESIGN", "INTERN">>

\* [emp for emp in employees if <condition>]: the positions of the Employee
\* objects the condition keeps, in list order; keep[i] is the condition's
\* value for employees[i].
RECURSIVE Comprehension(_, _, _, _)
Comprehension(emps, keep, i, acc) ==
  IF i > Len(emps) THEN acc
  ELSE Comprehension(emps, keep, i + 1, IF keep[i] THEN Append(acc, i) ELSE acc)

\* get_team_members written like find_employee_by_name: only the first member.
get_team_members_first(emps, team) ==
  LET all == Comprehension(emps, [i \in 1..Len(emps) |-> emps[i].team = team], 1, <<>>)
  IN IF all = <<>> THEN <<>> ELSE <<all[1]>>

get_team_members(emps, team) ==
  Comprehension(emps, [i \in 1..Len(emps) |-> emps[i].team = team], 1, <<>>)

\* get_available_employees keeping every employee.
get_available_employees_all(emps) ==
  Comprehension(emps, [i \in 1..Len(emps) |-> TRUE], 1, <<>>)

get_available_employees(emps) ==
  Comprehension(emps, [i \in 1..Len(emps) |-> emps[i].available], 1, <<>>)

\* Employee.can_help_with asking for all of the skills instead of any.
can_help_with_all(e, required_skills) ==
  \A k \in 1..Len(required_skills) :
    \E m \in 1..Len(e.skills) : e.skills[m] = required_skills[k]

can_help_with(e, required_skills) ==
  \E k \in 1..Len(required_skills) :
    \E m \in 1..Len(e.skills) : e.skills[m] = required_skills[k]

find_experts(emps, required_skills) ==
  Comprehension(emps, [i \in 1..Len(emps) |-> can_help_with(emps[i], required_skills)],
                1, <<>>)

\* -------------------------------------------------- Room, OfficeBuilder
\* amenities are display strings no operation reads; they are left out.
Room(name, capacity) == [name |-> name, capacity |-> capacity, occupied_by |-> <<>>]

\* OfficeBuilder.__init__
OfficeBuilder ==
  [rooms |-> <<>>, common_areas |-> <<>>, built |-> FALSE, construction_log |-> <<>>]

\* OfficeBuilder.log; the wall-clock prefix of the entry is left out.
log(b, message) == [b EXCEPT !.construction_log = Append(@, message)]

RoomIndex(rms, room_name) == {i \in 1..Len(rms) : rms[i].name = room_name}

\* self.rooms[name] = room on the insertion-ordered dict
SetRoom(b, room) ==
  IF RoomIndex(b.rooms, room.name) # {}
    THEN [b EXCEPT !.rooms[CHOOSE i \in RoomIndex(b.rooms, room.name) : TRUE] = room]
    ELSE [b EXCEPT !.rooms = Append(@, room)]

RECURSIVE SetRooms(_, _)
SetRooms(b, table) ==
  IF table = <<>> THEN b
  ELSE SetRooms(SetRoom(b, Room(table[1][1], table[1][2])), Tail(table))

\* build_reception registering the room under another name than the one the
\* employees' locations use.
build_reception_renamed(b) ==
  SetRoom(log(b, "Building reception area with marble desk..."), Room("Reception Area", 5))

build_reception(b) ==
  SetRoom(log(b, "Building reception area with marble desk..."), Room("Reception", 5))

build_conference_rooms(b) ==
  SetRooms(log(b, "Constructing conference rooms..."),
           << <<"Conference Room A", 12>>, <<"Conference Room B", 8>>,
              <<"Conference Room C", 6>>, <<"The War Room", 15>> >>)

build_team_pods(b) ==
  SetRooms(log(b, "Setting up team pods with ergonomic furniture..."),
           << <<"Frontend Team Pod", 6>>, <<"Backend Team Pod", 4>>,
              <<"DevOps Pod", 3>>, <<"QA Testing Lab", 4>>,
              <<"Data Analytics Suite", 3>>, <<"Design Studio", 3>> >>)

build_private_offices(b) ==
  SetRooms(log(b, "Constructing private offices with floor-to-ceiling windows..."),
           << <<"CTO Office", 2>>, <<"Product Director Office", 2>>,
              <<"Architecture Lead Office", 2>> >>)

RECURSIVE SetCommon(_, _)
SetCommon(b, table) ==
  IF table = <<>> THEN b
  ELSE LET b1 == SetRoom(b, Room(table[1][1], table[1][2]))
       IN SetCommon([b1 EXCEPT !.common_areas = Append(@, table[1][1])], Tail(table))

build_common_areas(b) ==
  SetCommon(log(b, "Installing common areas and amenities..."),
            << <<"Kitchen", 10>>, <<"Break Room", 8>>,
               <<"Quiet Room", 4>>, <<"Server Room", 2>> >>)

install_infrastructure(b) ==
  log(log(log(b, "Installing gigabit ethernet, WiFi 6, and power infrastructure..."),
          "Setting up climate control and LED lighting systems..."),
      "Installing security systems and badge access...")

\* build without its already-built guard: every room is registered afresh.
build_unguarded(b) ==
  LET b6 == install_infrastructure(build_common_areas(build_private_offices(
              build_team_pods(build_conference_rooms(build_reception(b))))))
  IN log([b6 EXCEPT !.built = TRUE], "Office construction COMPLETE!")

build(b) ==
  IF b.built THEN b
  ELSE LET b6 == install_infrastructure(build_common_areas(build_private_offices(
                   build_team_pods(build_conference_rooms(build_reception(b))))))
       IN log([b6 EXCEPT !.built = TRUE], "Office construction COMPLETE!")

\* get_room written as self.rooms[room_name]: an unknown name raises KeyError.
get_room_subscript(b, room_name) ==
  IF RoomIndex(b.rooms, room_name) = {} THEN [val |-> None, exc |-> "KeyError"]
  ELSE [val |-> Some(CHOOSE i \in RoomIndex(b.rooms, room_name) : TRUE), exc |-> NoExc]

RECURSIVE SumCapacity(_, _)
SumCapacity(rms, i) ==
  IF i > Len(rms) THEN 0 ELSE rms[i].capacity + SumCapacity(rms, i + 1)

\* The total printed by build, leaving out the rooms of the common areas.
total_capacity_without_common(b) ==
  SumCapacity(SelectSeq(b.rooms, LAMBDA room :
                \A k \in 1..Len(b.common_areas) : b.common_areas[k] # room.name), 1)

\* sum(room.capacity for room in self.rooms.values())
total_capacity(b) == SumCapacity(b.rooms, 1)

\* The two closing lines build prints.
build_printed(b) ==
  << Count("print", "Total rooms built", Len(b.rooms)),
     Count("print", "Total capacity", total_capacity(b)) >>

\* dict.get: the position of the Room in the map, or None.
get_room(b, room_name) ==
  [val |-> IF RoomIndex(b.rooms, room_name) = {} THEN None
           ELSE Some(CHOOSE i \in RoomIndex(b.rooms, room_name) : TRUE),
   exc |-> NoExc]

\* The condition of assign_employee_to_room comparing with <= instead of <.
room_has_space_le(b, room_name) ==
  LET g == get_room(b, room_name) IN
  /\ g.val # None
  /\ Len(b.rooms[g.val[1]].occupied_by) <= b.rooms[g.val[1]].capacity

\* room and len(room.occupied_by) < room.capacity, for room = get_room(room_name)
room_has_space(b, room_name) ==
  LET g == get_room(b, room_name) IN
  /\ g.val # None
  /\ Len(b.rooms[g.val[1]].occupied_by) < b.rooms[g.val[1]].capacity

\* room.occupied_by.append(employee_name), room being the Room at position i
append_occupant(b, i, employee_name) ==
  [b EXCEPT !.rooms[i].occupied_by = Append(@, employee_name)]

\* assign_employee_to_room without the capacity check.
assign_employee_to_room_unchecked(b, employee_name, room_name) ==
  LET g == get_room(b, room_name) IN
  IF g.exc # NoExc THEN [b |-> b, ret |-> None, exc |-> g.exc]
  ELSE IF g.val # None
    THEN [b |-> [b EXCEPT !.rooms[g.val[1]].occupied_by = Append(@, employee_name)],
          ret |-> TRUE, exc |-> NoExc]
    ELSE [b |-> b, ret |-> FALSE, exc |-> NoExc]

\* assign_employee_to_room comparing with <= instead of <.
assign_employee_to_room_le(b, employee_name, room_name) ==
  LET g == get_room(b, room_name) IN
  IF g.exc # NoExc THEN [b |-> b, ret |-> None, exc |-> g.exc]
  ELSE IF g.val # None
          /\ Len(b.rooms[g.val[1]].occupied_by) <= b.rooms[g.val[1]].capacity
    THEN [b |-> [b EXCEPT !.rooms[g.val[1]].occupied_by = Append(@, employee_name)],
          ret |-> TRUE, exc |-> NoExc]
    ELSE [b |-> b, ret |-> FALSE, exc |-> NoExc]

\* assign_employee_to_room inserting the name at the front of the list.
assign_employee_to_room_prepends(b, employee_name, room_name) ==
  LET g == get_room(b, room_name) IN
  IF g.exc # NoExc THEN [b |-> b, ret |-> None, exc |-> g.exc]
  ELSE IF g.val # None
          /\ Len(b.rooms[g.val[1]].occupied_by) < b.rooms[g.val[1]].capacity
    THEN [b |-> [b EXCEPT !.rooms[g.val[1]].occupied_by = <<employee_name>> \o @],
          ret |-> TRUE, exc |-> NoExc]
    ELSE [b |-> b, ret |-> FALSE, exc |-> NoExc]

\* assign_employee_to_room opening a room of its own for an unknown name.
assign_employee_to_room_creates(b, employee_name, room_name) ==
  LET g == get_room(b, room_name) IN
  IF g.exc # NoExc THEN [b |-> b, ret |-> None, exc |-> g.exc]
  ELSE IF g.val = None
    THEN [b |-> [b EXCEPT !.rooms =
                   Append(@, [Room(room_name, 1) EXCEPT !.occupied_by = <<employee_name>>])],
          ret |-> TRUE, exc |-> NoExc]
  ELSE IF Len(b.rooms[g.val[1]].occupied_by) < b.rooms[g.val[1]].capacity
    THEN [b |-> [b EXCEPT !.rooms[g.val[1]].occupied_by = Append(@, employee_name)],
          ret |-> TRUE, exc |-> NoExc]
    ELSE [b |-> b, ret |-> FALSE, exc |-> NoExc]

\* assign_employee_to_room refusing a name that already occupies a room.
assign_employee_to_room_once(b, employee_name, room_name) ==
  LET g == get_room(b, room_name) IN
  IF g.exc # NoExc THEN [b |-> b, ret |-> None, exc |-> g.exc]
  ELSE IF g.val # None
          /\ Len(b.rooms[g.val[1]].occupied_by) < b.rooms[g.val[1]].capacity
          /\ \A i \in 1..Len(b.rooms) : \A k \in 1..Len(b.rooms[i].occupied_by) :
                b.rooms[i].occupied_by[k] # employee_name
    THEN [b |-> [b EXCEPT !.rooms[g.val[1]].occupied_by = Append(@, employee_name)],
          ret |-> TRUE, exc |-> NoExc]
    ELSE [b |-> b, ret |-> FALSE, exc |-> NoExc]

assign_employee_to_room(b, employee_name, room_name) ==
  LET g == get_room(b, room_name) IN
  IF g.exc # NoExc THEN [b |-> b, ret |-> None, exc |-> g.exc]
  ELSE IF g.val # None
          /\ Len(b.rooms[g.val[1]].occupied_by) < b.rooms[g.val[1]].capacity
    THEN [b |-> [b EXCEPT !.rooms[g.val[1]].occupied_by = Append(@, employee_name)],
          ret |-> TRUE, exc |-> NoExc]
    ELSE [b |-> b, ret |-> FALSE, exc |-> NoExc]

\* ---------------------------------------------------------- NexusOffice
RECURSIVE AssignFrom(_, _, _, _)
AssignFrom(b, emps, i, rep) ==
  IF i > Len(emps) THEN [b |-> b, report |-> rep, exc |-> NoExc]
  ELSE LET r == assign_employee_to_room(b, emps[i].name, emps[i].location) IN
       IF r.exc # NoExc THEN [b |-> r.b, report |-> rep, exc |-> r.exc]
       ELSE AssignFrom(r.b, emps, i + 1,
                       Append(rep, [name |-> emps[i].name, room |-> emps[i].location,
                                    ok |-> r.ret]))

RECURSIVE Reverse(_)
Reverse(s) == IF s = <<>> THEN <<>> ELSE Append(Reverse(Tail(s)), Head(s))

\* The assignment pass walking the roster from its last employee to its first.
_assign_employees_to_rooms_reversed(b, emps) ==
  LET r == AssignFrom(b, Reverse(emps), 1, <<>>)
  IN [r EXCEPT !.report = Reverse(@)]

RECURSIVE AssignUntilFull(_, _, _, _)
AssignUntilFull(b, emps, i, rep) ==
  IF i > Len(emps) THEN [b |-> b, report |-> rep, exc |-> NoExc]
  ELSE LET r == assign_employee_to_room(b, emps[i].name, emps[i].location)
           line == [name |-> emps[i].name, room |-> emps[i].location, ok |-> r.ret]
       IN IF r.exc # NoExc THEN [b |-> r.b, report |-> rep, exc |-> r.exc]
          ELSE IF r.ret THEN AssignUntilFull(r.b, emps, i + 1, Append(rep, line))
          ELSE [b |-> r.b, report |-> Append(rep, line), exc |-> NoExc]

\* The assignment pass leaving its loop at the first failed assignment.
_assign_employees_to_rooms_breaks(b, emps) == AssignUntilFull(b, emps, 1, <<>>)

RECURSIVE AssignOrFlex(_, _, _, _)
AssignOrFlex(b, emps, i, rep) ==
  IF i > Len(emps) THEN [b |-> b, report |-> rep, exc |-> NoExc]
  ELSE LET r == assign_employee_to_room(b, emps[i].name, emps[i].location)
           line == [name |-> emps[i].name, room |-> emps[i].location, ok |-> r.ret]
       IN IF r.exc # NoExc THEN [b |-> r.b, report |-> rep, exc |-> r.exc]
          ELSE IF r.ret THEN AssignOrFlex(r.b, emps, i + 1, Append(rep, line))
          ELSE AssignOrFlex(assign_employee_to_room(r.b, emps[i].name, "Kitchen").b,
                            emps, i + 1, Append(rep, line))

\* The assignment pass giving an employee whose room is full a seat in the
\* Kitchen ("flexible seating").
_assign_employees_to_rooms_flexible(b, emps) == AssignOrFlex(b, emps, 1, <<>>)

\* One printed line per employee: the name, the room and whether it succeeded.
_assign_employees_to_rooms(b, emps) == AssignFrom(b, emps, 1, <<>>)

\* The state of a NexusOffice object.
Nexus ==
  [office_builder |-> office_builder, employees |-> employees,
   initialized |-> initialized, projects_completed |-> projects_completed]

\* NexusOffice.__init__
NexusOffice ==
  [office_builder |-> None, employees |-> <<>>, initialized |-> FALSE,
   projects_completed |-> 0]

\* The team lines of the summary: one per team that has members.
TeamComposition(nx) ==
  LET staffed == SelectSeq(Teams, LAMBDA t : get_team_members(nx.employees, t) # <<>>)
  IN [k \in 1..Len(staffed) |->
        Count("team", staffed[k], Len(get_team_members(nx.employees, staffed[k])))]

_display_initialization_summary(nx) ==
  LET available == Len(get_available_employees(nx.employees))
      busy == Len(nx.employees) - available
  IN << Count("office_status", "Total Employees", Len(nx.employees)),
        Count("office_status", "Available", available),
        Count("office_status", "Busy", busy),
        Count("print", "Total Rooms", Len(nx.office_builder[1].rooms)) >>
     \o TeamComposition(nx)
     \o << Msg("success", "All systems operational. Ready for customer projects!") >>

\* The body of initialize marking the office initialized without building,
\* hiring or assigning.
initialize_body_flag_only(nx) ==
  [nx |-> [nx EXCEPT !.initialized = TRUE],
   shown |-> << Msg("header", "NEXUS OFFICE INITIALIZATION SEQUENCE"),
                Msg("header", "NEXUS SOFTWARE SOLUTIONS IS OPERATIONAL") >>,
   report |-> <<>>, exc |-> NoExc]

\* Lines 43-66 of initialize: build, hire, assign, mark initialized.
initialize_body(nx) ==
  LET b == build(OfficeBuilder)
      emps == create_all_employees
      pass == _assign_employees_to_rooms(b, emps)
      nx3 == [nx EXCEPT !.office_builder = Some(pass.b), !.employees = emps]
      before == << Msg("header", "NEXUS OFFICE INITIALIZATION SEQUENCE"),
                   Msg("info", "PHASE 1: Office Construction") >>
                \o build_printed(b)
                \o << Msg("info", "PHASE 2: Employee Initialization"),
                   Msg("info", "PHASE 3: Workspace Assignment") >>
  IN IF pass.exc # NoExc
       THEN [nx |-> nx3, shown |-> before, report |-> pass.report, exc |-> pass.exc]
       ELSE [nx |-> [nx3 EXCEPT !.initialized = TRUE],
             shown |-> before \o << Msg("header", "NEXUS SOFTWARE SOLUTIONS IS OPERATIONAL") >>
                              \o _display_initialization_summary(
                                    [nx3 EXCEPT !.initialized = TRUE]),
             report |-> pass.report, exc |-> NoExc]

\* initialize without its already-initialized guard.
initialize_unguarded(nx) == initialize_body(nx)

initialize(nx) ==
  IF nx.initialized
    THEN [nx |-> nx, shown |-> << Msg("warning", "Office already initialized!") >>,
          report |-> <<>>, exc |-> NoExc]
    ELSE initialize_body(nx)

get_employee(nx, name) == find_employee_by_name(nx.employees, name)

get_team(nx, team) == get_team_members(nx.employees, team)

nexus_get_available_employees(nx) == get_available_employees(nx.employees)

nexus_find_experts(nx, skills) == find_experts(nx.employees, skills)

\* The result of a NexusOffice method: the object afterwards, the value
\* returned, the Display messages emitted and the exception raised, if any.
Returned(nx, value, messages) ==
  [nx |-> nx, ret |-> value, shown |-> messages, exc |-> NoExc]
\* self.office_builder.<method>(...) while office_builder is None
Raised(nx, messages, exception) ==
  [nx |-> nx, ret |-> None, shown |-> messages, exc |-> exception]

NotInitialized == Msg("error", "Office not initialized yet!")

show_office_layout(nx) ==
  IF ~nx.initialized THEN Returned(nx, None, <<NotInitialized>>)
  ELSE IF nx.office_builder = None THEN Raised(nx, <<>>, "AttributeError")
  ELSE Returned(nx, None,
         << Count("display_office", "NEXUS SOFTWARE SOLUTIONS - OFFICE LAYOUT",
                  Len(nx.office_builder[1].rooms)) >>)

show_employee_directory(nx) ==
  IF ~nx.initialized THEN Returned(nx, None, <<NotInitialized>>)
  ELSE LET staffed == SelectSeq(Teams, LAMBDA t : get_team(nx, t) # <<>>)
       IN Returned(nx, None,
            << Msg("header", "EMPLOYEE DIRECTORY") >>
            \o [k \in 1..Len(staffed) |->
                  Count("team_roster", staffed[k], Len(get_team(nx, staffed[k])))])

\* show_team without its not-initialized guard.
show_team_unguarded(nx, team) ==
  LET team_members == get_team(nx, team)
  IN Returned(nx, None,
       << Msg("header", team) >>
       \o [k \in 1..Len(team_members) |->
             Msg("employee_card", nx.employees[team_members[k]].name)])

show_team(nx, team) ==
  IF ~nx.initialized THEN Returned(nx, None, <<NotInitialized>>)
  ELSE LET team_members == get_team(nx, team)
       IN Returned(nx, None,
            << Msg("header", team) >>
            \o [k \in 1..Len(team_members) |->
                  Msg("employee_card", nx.employees[team_members[k]].name)])

reception_greeting(nx) ==
  Returned(nx, None,
    << Msg("dialogue",
           "Good morning, Nexus Software Solutions, how may I direct your call?") >>)

\* start_project counting the project in projects_completed.
start_project_counts(nx, project_name, customer_name) ==
  IF ~nx.initialized
    THEN Returned(nx, None,
           << Msg("error", "Office not initialized yet! Please run initialize() first.") >>)
    ELSE Returned([nx EXCEPT !.projects_completed = @ + 1], None,
           << Msg("project_banner", project_name), Msg("project_banner", customer_name),
              Msg("dialogue", "Diana Foster") >>)

start_project(nx, project_name, customer_name) ==
  IF ~nx.initialized
    THEN Returned(nx, None,
           << Msg("error", "Office not initialized yet! Please run initialize() first.") >>)
    ELSE Returned(nx, None,
           << Msg("project_banner", project_name), Msg("project_banner", customer_name),
              Msg("dialogue", "Diana Foster") >>)

TourStops == <<"Reception", "Frontend Team Pod", "Backend Team Pod", "QA Testing Lab",
               "DevOps Pod", "Design Studio", "The War Room", "Kitchen">>

office_tour(nx) ==
  IF ~nx.initialized THEN Returned(nx, None, <<NotInitialized>>)
  ELSE IF nx.office_builder = None
    THEN Raised(nx, << Msg("header", "OFFICE TOUR"),
                       Msg("narration", "*Walking through the glass doors onto the 14th floor*") >>,
                "AttributeError")
  ELSE LET found == SelectSeq(TourStops,
                      LAMBDA stop : get_room(nx.office_builder[1], stop).val # None)
       IN Returned(nx, None,
            << Msg("header", "OFFICE TOUR"),
               Msg("narration", "*Walking through the glass doors onto the 14th floor*") >>
            \o [k \in 1..Len(found) |->
                  Count("tour_stop", found[k],
                        Len(nx.office_builder[1].rooms[
                              get_room(nx.office_builder[1], found[k]).val[1]].occupied_by))]
            \o << Msg("narration",
                      "*Tour complete. Floor-to-ceiling windows offer stunning city views*") >>)

status(nx) ==
  IF ~nx.initialized
    THEN Returned(nx, [initialized |-> FALSE, message |-> "Office not initialized"], <<>>)
  ELSE IF nx.office_builder = None THEN Raised(nx, <<>>, "AttributeError")
  ELSE LET available == Len(nexus_get_available_employees(nx))
       IN Returned(nx,
            [initialized |-> TRUE,
             total_employees |-> Len(nx.employees),
             available_employees |-> available,
             busy_employees |-> Len(nx.employees) - available,
             total_rooms |-> Len(nx.office_builder[1].rooms),
             projects_completed |-> nx.projects_completed],
            <<>>)

EmergencyAnnounced(topic) ==
  << Msg("header", "EMERGENCY MEETING"),
     Msg("narration", "*Slack notification pings across the office*"),
     Msg("dialogue", topic),
     Msg("narration", "*Employees stream toward The War Room, coffee cups in hand*") >>

\* emergency_meeting that seats the employees in The War Room.
emergency_meeting_seats(nx, topic) ==
  IF ~nx.initialized THEN Returned(nx, None, <<NotInitialized>>)
  ELSE IF nx.office_builder = None
    THEN Raised(nx, EmergencyAnnounced(topic), "AttributeError")
  ELSE LET moved == [k \in 1..Len(nx.employees) |->
                       [nx.employees[k] EXCEPT !.location = "The War Room"]]
           pass == _assign_employees_to_rooms(nx.office_builder[1], moved)
       IN Returned([nx EXCEPT !.office_builder = Some(pass.b)], None,
                   EmergencyAnnounced(topic))

emergency_meeting(nx, topic) ==
  IF ~nx.initialized THEN Returned(nx, None, <<NotInitialized>>)
  ELSE IF nx.office_builder = None
    THEN Raised(nx, EmergencyAnnounced(topic), "AttributeError")
  ELSE LET war_room == get_room(nx.office_builder[1], "The War Room")
       IN Returned(nx, None,
            EmergencyAnnounced(topic)
            \o (IF war_room.val # None
                  THEN << Count("print", "The War Room - All Hands Meeting",
                                Len(nx.employees)) >>
                  ELSE <<>>))

\* ------------------------------------------------------- call arguments
Tasks == {"", "deploy"}
NameArgs == {"Bobby Chen", "Visitor"}
RoomArgs == {"CTO Office", "Reception", "reception", "Lobby"}
BuilderRoomArgs == {"Reception", "Server Room", "Lobby"}
RoomNames == {build(OfficeBuilder).rooms[i].name : i \in 1..Len(build(OfficeBuilder).rooms)}
RoomUniverse == RoomNames \cup RoomArgs \cup BuilderRoomArgs
Driven == 1..Min(NumDriven, Len(employees))
NexusTeamArgs == {"FRONTEND", "EXECUTIVE"}
NexusNameArgs == {"marcus chen", "Nobody"}
NexusSkillArgs == {<<"PYTHON">>}
ProjectArgs == {"Mobile App Fix", ""}
CustomerArgs == {"TechStartup Inc."}
TopicArgs == {"Production outage", ""}

\* results keeps, for every room of the map, the outcomes of the
\* assign_employee_to_room calls that named it, in call order.
Logged(res, b, room_name, ok) ==
  IF RoomIndex(b.rooms, room_name) # {}
    THEN [res EXCEPT ![room_name] = Append(@, ok)]
    ELSE res

Oks(lines) == [k \in 1..Len(lines) |-> lines[k].ok]

LogReport(res, b, rep) ==
  [rm \in DOMAIN res |->
     IF RoomIndex(b.rooms, rm) # {}
       THEN res[rm] \o Oks(SelectSeq(rep, LAMBDA line : line.room = rm))
       ELSE res[rm]]

\* ---------------------------------------------------------------- state
Init ==
  /\ office_builder = NexusOffice.office_builder
  /\ employees = NexusOffice.employees
  /\ initialized = NexusOffice.initialized
  /\ projects_completed = NexusOffice.projects_completed
  /\ op = [name |-> "__init__", args |-> <<>>]
  /\ ret = None
  /\ exc = NoExc
  /\ shown = <<>>
  /\ report = <<>>
  /\ results = [r \in RoomUniverse |-> <<>>]
  /\ projects_started = 0
  /\ exclusive = TRUE
  /\ pc = <<>>
  /\ locals = <<>>
  /\ calls = 0

Called(name, args) ==
  /\ op' = [name |-> name, args |-> args]
  /\ calls' = calls + 1
  /\ projects_started' = IF name = "start_project" /\ initialized
                           THEN projects_started + 1 ELSE projects_started
  /\ UNCHANGED <<exclusive, pc, locals>>

\* --------------------------------------------------------------- actions
Initialize ==
  LET r == initialize(Nexus) IN
  /\ Called("initialize", <<>>)
  /\ office_builder' = r.nx.office_builder
  /\ employees' = r.nx.employees
  /\ initialized' = r.nx.initialized
  /\ projects_completed' = r.nx.projects_completed
  /\ ret' = None
  /\ exc' = r.exc
  /\ shown' = r.shown
  /\ report' = IF initialized THEN report ELSE r.report
  /\ results' = IF r.nx.office_builder = None THEN results
                ELSE LogReport(results, r.nx.office_builder[1], r.report)

AssignTask(i, task) ==
  /\ i \in Driven
  /\ Called("assign_task", <<i, task>>)
  /\ employees' = [employees EXCEPT ![i] = assign_task(@, task)]
  /\ ret' = None
  /\ exc' = NoExc
  /\ shown' = <<>>
  /\ UNCHANGED <<office_builder, initialized, projects_completed, report, results>>

CompleteTask(i) ==
  /\ i \in Driven
  /\ Called("complete_task", <<i>>)
  /\ employees' = [employees EXCEPT ![i] = complete_task(@).emp]
  /\ ret' = complete_task(employees[i]).ret
  /\ exc' = NoExc
  /\ shown' = <<>>
  /\ UNCHANGED <<office_builder, initialized, projects_completed, report, results>>

AssignEmployeeToRoom(employee_name, room_name) ==
  /\ office_builder # None
  /\ LET r == assign_employee_to_room(office_builder[1], employee_name, room_name) IN
       /\ Called("assign_employee_to_room", <<employee_name, room_name>>)
       /\ office_builder' = Some(r.b)
       /\ ret' = r.ret
       /\ exc' = r.exc
       /\ results' = IF r.exc = NoExc
                       THEN Logged(results, r.b, room_name, r.ret)
                       ELSE results
  /\ shown' = <<>>
  /\ UNCHANGED <<employees, initialized, projects_completed, report>>

GetRoom(room_name) ==
  /\ office_builder # None
  /\ LET r == get_room(office_builder[1], room_name) IN
       /\ Called("get_room", <<room_name>>)
       /\ ret' = r.val
       /\ exc' = r.exc
  /\ shown' = <<>>
  /\ UNCHANGED <<office_builder, employees, initialized, projects_completed,
                 report, results>>

Build ==
  /\ office_builder # None
  /\ Called("build", <<>>)
  /\ office_builder' = Some(build(office_builder[1]))
  /\ ret' = None
  /\ exc' = NoExc
  /\ shown' = <<>>
  /\ UNCHANGED <<employees, initialized, projects_completed, report, results>>

GetEmployee(name) ==
  /\ Called("get_employee", <<name>>)
  /\ ret' = get_employee(Nexus, name)
  /\ exc' = NoExc
  /\ shown' = <<>>
  /\ UNCHANGED <<office_builder, employees, initialized, projects_completed,
                 report, results>>

GetTeam(team) ==
  /\ Called("get_team", <<team>>)
  /\ ret' = get_team(Nexus, team)
  /\ exc' = NoExc
  /\ shown' = <<>>
  /\ UNCHANGED <<office_builder, employees, initialized, projects_completed,
                 report, results>>

GetAvailableEmployees ==
  /\ Called("get_available_employees", <<>>)
  /\ ret' = nexus_get_available_employees(Nexus)
  /\ exc' = NoExc
  /\ shown' = <<>>
  /\ UNCHANGED <<office_builder, employees, initialized, projects_completed,
                 report, results>>

FindExperts(skills) ==
  /\ Called("find_experts", <<skills>>)
  /\ ret' = nexus_find_experts(Nexus, skills)
  /\ exc' = NoExc
  /\ shown' = <<>>
  /\ UNCHANGED <<office_builder, employees, initialized, projects_completed,
                 report, results>>

\* A call of a NexusOffice method with result r.
NexusCall(name, args, r) ==
  /\ Called(name, args)
  /\ office_builder' = r.nx.office_builder
  /\ employees' = r.nx.employees
  /\ initialized' = r.nx.initialized
  /\ projects_completed' = r.nx.projects_completed
  /\ ret' = r.ret
  /\ exc' = r.exc
  /\ shown' = r.shown
  /\ UNCHANGED <<report, results>>

ShowOfficeLayout == NexusCall("show_office_layout", <<>>, show_office_layout(Nexus))

ShowEmployeeDirectory ==
  NexusCall("show_employee_directory", <<>>, show_employee_directory(Nexus))

ShowTeam(team) == NexusCall("show_team", <<team>>, show_team(Nexus, team))

ReceptionGreeting == NexusCall("reception_greeting", <<>>, reception_greeting(Nexus))

StartProject(project_name, customer_name) ==
  NexusCall("start_project", <<project_name, customer_name>>,
            start_project(Nexus, project_name, customer_name))

OfficeTour == NexusCall("office_tour", <<>>, office_tour(Nexus))

Status == NexusCall("status", <<>>, status(Nexus))

EmergencyMeeting(topic) ==
  NexusCall("emergency_meeting", <<topic>>, emergency_meeting(Nexus, topic))

\* ---------------------------------------------- calls by concurrent callers
\* The mutating methods statement by statement, as callers sharing the
\* objects without a lock would run them.  A caller that is "idle" is between
\* calls; with exclusive access a call starts only when every caller is idle.
Threads == 1..NumThreads
RaceNameArgs == {"Visitor"}
RaceRoomArgs == {"Server Room"}
RaceEmployees == {1}
RaceTasks == {"deploy"}

Idle == [args |-> <<>>, room |-> None, completed |-> None]

MayStart(t) ==
  /\ pc[t] = "idle"
  /\ calls < MaxRaceCalls
  /\ exclusive => \A u \in Threads : pc[u] = "idle"

Returns(t, name, value) ==
  /\ op' = [name |-> name, args |-> locals[t].args]
  /\ ret' = value
  /\ exc' = NoExc
  /\ pc' = [pc EXCEPT ![t] = "idle"]
  /\ locals' = [locals EXCEPT ![t] = Idle]

\* assign_employee_to_room, lines 156-157 and the return False of line 160
AssignRoomCheck(t, employee_name, room_name) ==
  /\ MayStart(t)
  /\ office_builder # None
  /\ calls' = calls + 1
  /\ IF room_has_space(office_builder[1], room_name)
       THEN /\ pc' = [pc EXCEPT ![t] = "append"]
            /\ locals' = [locals EXCEPT ![t] =
                            [args |-> <<employee_name, room_name>>,
                             room |-> get_room(office_builder[1], room_name).val,
                             completed |-> None]]
            /\ UNCHANGED <<op, ret, exc>>
       ELSE /\ op' = [name |-> "assign_employee_to_room",
                      args |-> <<employee_name, room_name>>]
            /\ ret' = FALSE
            /\ exc' = NoExc
            /\ UNCHANGED <<pc, locals>>
  /\ UNCHANGED <<office_builder, employees, initialized, projects_completed, shown,
                 report, results, projects_started, exclusive>>

\* assign_employee_to_room, lines 158-159
AssignRoomAppend(t) ==
  /\ pc[t] = "append"
  /\ office_builder' = Some(append_occupant(office_builder[1], locals[t].room[1],
                                            locals[t].args[1]))
  /\ Returns(t, "assign_employee_to_room", TRUE)
  /\ UNCHANGED <<employees, initialized, projects_completed, shown, report, results,
                 projects_started, calls, exclusive>>

\* assign_task, line 74: self.current_task = task
AssignTaskWriteTask(t, i, task) ==
  /\ MayStart(t)
  /\ i \in 1..Len(employees)
  /\ calls' = calls + 1
  /\ employees' = [employees EXCEPT ![i].current_task = Some(task)]
  /\ pc' = [pc EXCEPT ![t] = "assign_task_available"]
  /\ locals' = [locals EXCEPT ![t] = [Idle EXCEPT !.args = <<i, task>>]]
  /\ UNCHANGED <<office_builder, initialized, projects_completed, op, ret, exc, shown,
                 report, results, projects_started, exclusive>>

\* assign_task, line 75: self.available = False
AssignTaskWriteAvailable(t) ==
  /\ pc[t] = "assign_task_available"
  /\ employees' = [employees EXCEPT ![locals[t].args[1]].available = FALSE]
  /\ Returns(t, "assign_task", None)
  /\ UNCHANGED <<office_builder, initialized, projects_completed, shown, report,
                 results, projects_started, calls, exclusive>>

\* complete_task, line 79: completed = self.current_task
CompleteTaskRead(t, i) ==
  /\ MayStart(t)
  /\ i \in 1..Len(employees)
  /\ calls' = calls + 1
  /\ pc' = [pc EXCEPT ![t] = "complete_task_clear"]
  /\ locals' = [locals EXCEPT ![t] =
                  [args |-> <<i>>, room |-> None,
                   completed |-> Some(employees[i].current_task)]]
  /\ UNCHANGED <<office_builder, employees, initialized, projects_completed, op, ret,
                 exc, shown, report, results, projects_started, exclusive>>

\* complete_task, line 80: self.current_task = None
CompleteTaskClear(t) ==
  /\ pc[t] = "complete_task_clear"
  /\ employees' = [employees EXCEPT ![locals[t].args[1]].current_task = None]
  /\ pc' = [pc EXCEPT ![t] = "complete_task_available"]
  /\ UNCHANGED <<office_builder, initialized, projects_completed, op, ret, exc, shown,
                 report, results, projects_started, calls, exclusive, locals>>

\* complete_task, lines 81-82: self.available = True; return completed
CompleteTaskWriteAvailable(t) ==
  /\ pc[t] = "complete_task_available"
  /\ employees' = [employees EXCEPT ![locals[t].args[1]].available = TRUE]
  /\ Returns(t, "complete_task", locals[t].completed[1])
  /\ UNCHANGED <<office_builder, initialized, projects_completed, shown, report,
                 results, projects_started, calls, exclusive>>

\* -------------------------------------------------------- specifications
\* A NexusOffice from construction on, driven by its caller.
Next ==
  \/ calls < MaxCalls /\ Initialize
  \/ \E i \in 1..NumDriven, task \in Tasks : calls < MaxCalls /\ AssignTask(i, task)
  \/ \E i \in 1..NumDriven : calls < MaxCalls /\ CompleteTask(i)
  \/ \E n \in NameArgs, r \in RoomArgs : calls < MaxCalls /\ AssignEmployeeToRoom(n, r)
  \/ \E r \in RoomArgs : calls < MaxCalls /\ GetRoom(r)
  \/ \E name \in NexusNameArgs : calls < MaxCalls /\ GetEmployee(name)
  \/ \E team \in NexusTeamArgs : calls < MaxCalls /\ GetTeam(team)
  \/ calls < MaxCalls /\ GetAvailableEmployees
  \/ \E skills \in NexusSkillArgs : calls < MaxCalls /\ FindExperts(skills)
  \/ calls < MaxCalls /\ ShowOfficeLayout
  \/ calls < MaxCalls /\ ShowEmployeeDirectory
  \/ \E team \in NexusTeamArgs : calls < MaxCalls /\ ShowTeam(team)
  \/ calls < MaxCalls /\ ReceptionGreeting
  \/ \E p \in ProjectArgs, c \in CustomerArgs : calls < MaxCalls /\ StartProject(p, c)
  \/ calls < MaxCalls /\ OfficeTour
  \/ calls < MaxCalls /\ Status
  \/ \E topic \in TopicArgs : calls < MaxCalls /\ EmergencyMeeting(topic)

Spec == Init /\ [][Next]_vars

\* An OfficeBuilder on its own, as in office_builder.py's main block.
InitBuilder ==
  /\ office_builder = Some(OfficeBuilder)
  /\ employees = <<>>
  /\ initialized = FALSE
  /\ projects_completed = 0
  /\ op = [name |-> "__init__", args |-> <<>>]
  /\ ret = None
  /\ exc = NoExc
  /\ shown = <<>>
  /\ report = <<>>
  /\ results = [r \in RoomUniverse |-> <<>>]
  /\ projects_started = 0
  /\ exclusive = TRUE
  /\ pc = <<>>
  /\ locals = <<>>
  /\ calls = 0

NextBuilder ==
  \/ calls < MaxBuilderCalls /\ Build
  \/ \E n \in NameArgs, r \in BuilderRoomArgs :
       calls < MaxBuilderCalls /\ AssignEmployeeToRoom(n, r)
  \/ \E r \in BuilderRoomArgs : calls < MaxBuilderCalls /\ GetRoom(r)

SpecBuilder == InitBuilder /\ [][NextBuilder]_vars

\* The office after initialize(), with further assign_employee_to_room calls
\* for a roster name and a stranger, on a room with one free seat, an empty
\* room and a room that does not exist.
SeatingRoomArgs == {"CTO Office", "Quiet Room", "Lobby"}

NextSeating ==
  \/ calls < MaxSeatingCalls /\ Initialize
  \/ \E n \in NameArgs, r \in SeatingRoomArgs :
       calls < MaxSeatingCalls /\ AssignEmployeeToRoom(n, r)

SpecSeating == Init /\ [][NextSeating]_vars

\* A built OfficeBuilder and one Employee shared by NumThreads callers, with
\* or without exclusive access per call.
InitRace ==
  /\ office_builder = Some(build(OfficeBuilder))
  /\ employees = <<create_all_employees[1]>>
  /\ initialized = FALSE
  /\ projects_completed = 0
  /\ op = [name |-> "__init__", args |-> <<>>]
  /\ ret = None
  /\ exc = NoExc
  /\ shown = <<>>
  /\ report = <<>>
  /\ results = [r \in RoomUniverse |-> <<>>]
  /\ projects_started = 0
  /\ calls = 0
  /\ exclusive \in BOOLEAN
  /\ pc = [t \in Threads |-> "idle"]
  /\ locals = [t \in Threads |-> Idle]

NextRace ==
  \/ \E t \in Threads, n \in RaceNameArgs, r \in RaceRoomArgs : AssignRoomCheck(t, n, r)
  \/ \E t \in Threads : AssignRoomAppend(t)
  \/ \E t \in Threads, i \in RaceEmployees, task \in RaceTasks :
       AssignTaskWriteTask(t, i, task)
  \/ \E t \in Threads : AssignTaskWriteAvailable(t)
  \/ \E t \in Threads, i \in RaceEmployees : CompleteTaskRead(t, i)
  \/ \E t \in Threads : CompleteTaskClear(t)
  \/ \E t \in Threads : CompleteTaskWriteAvailable(t)

SpecRace == InitRace /\ [][NextRace]_vars

\* find_employee_by_name over rosters drawn from a pool of names.
NamePool == {"Marcus Chen", "marcus chen", "Bobby Chen"}
FindNames == {"Marcus Chen", "marcus chen", "MARCUS CHEN", "mArCuS cHeN", "Marcus",
              "Marcus  Chen", "Marcus Chen ", "kevin o'brien", "BOBBY CHEN",
              "bobby chen", "Nobody", ""}
RosterOf(names) ==
  [k \in 1..Len(names) |-> Employee(names[k], "INTERN", <<>>, "Not assigned")]
FindRosters ==
  {create_all_employees}
    \cup UNION {{RosterOf(ns) : ns \in [1..n -> NamePool]} : n \in 0..MaxRoster}

InitFind ==
  /\ office_builder = None
  /\ employees \in FindRosters
  /\ initialized = FALSE
  /\ projects_completed = 0
  /\ op = [name |-> "__init__", args |-> <<>>]
  /\ ret = None
  /\ exc = NoExc
  /\ shown = <<>>
  /\ report = <<>>
  /\ results = [r \in RoomUniverse |-> <<>>]
  /\ projects_started = 0
  /\ exclusive = TRUE
  /\ pc = <<>>
  /\ locals = <<>>
  /\ calls = 0

NextFind == \E name \in FindNames : calls < MaxFindCalls /\ GetEmployee(name)

SpecFind == InitFind /\ [][NextFind]_vars

\* get_team_members and find_experts over rosters drawn from a pool of
\* employees, and over the fixture roster.
QueryPool ==
  {create_all_employees[i] : i \in {2, 3, 7}}
    \cup {Employee("Temp", "INTERN", <<>>, "Not assigned")}
QueryRosters ==
  {create_all_employees}
    \cup UNION {[1..n -> QueryPool] : n \in 0..MaxQueryRoster}
TeamArgs == {Teams[k] : k \in 1..Len(Teams)}
SkillArgs == {<<>>, <<"PYTHON">>, <<"PYTHON", "JAVASCRIPT">>, <<"UX", "UX">>,
              <<"LEADERSHIP", "CLOUD">>}

InitQuery ==
  /\ office_builder = None
  /\ employees \in QueryRosters
  /\ initialized = FALSE
  /\ projects_completed = 0
  /\ op = [name |-> "__init__", args |-> <<>>]
  /\ ret = None
  /\ exc = NoExc
  /\ shown = <<>>
  /\ report = <<>>
  /\ results = [r \in RoomUniverse |-> <<>>]
  /\ projects_started = 0
  /\ exclusive = TRUE
  /\ pc = <<>>
  /\ locals = <<>>
  /\ calls = 0

NextQuery ==
  \/ \E team \in TeamArgs : calls < MaxQueryCalls /\ GetTeam(team)
  \/ \E skills \in SkillArgs : calls < MaxQueryCalls /\ FindExperts(skills)

SpecQuery == InitQuery /\ [][NextQuery]_vars

\* ------------------------------------------------------------ properties
\* The last call was the initialize() that set the office up, not a repeat.
FreshlyInitialized == initialized /\ op.name = "initialize" /\ Len(shown) > 1

Rooms == IF office_builder = None THEN <<>> ELSE office_builder[1].rooms
IsUnknown(room_name) == RoomIndex(Rooms, room_name) = {}
IsFull(room_name) ==
  \E i \in RoomIndex(Rooms, room_name) : Len(Rooms[i].occupied_by) = Rooms[i].capacity
Busy(i) == employees[i].current_task # None

\* C1: for every employee of the roster, available == (current_task is None),
\* initially and after any sequence of assign_task / complete_task calls.
C1_AvailableIffNoTask ==
  \A i \in 1..Len(employees) :
    employees[i].available = (employees[i].current_task = None)

\* A task was completed on one employee while another one is still busy.
C1_Witness ==
  /\ op.name = "complete_task"
  /\ ret # None
  /\ ~Busy(op.args[1])
  /\ \E j \in 1..Len(employees) : Busy(j) /\ ~employees[j].available

\* C2: after initialize() and any sequence of assign_employee_to_room calls,
\* successful or not, every room holds at most capacity occupants.
C2_NeverOverCapacity ==
  \A i \in 1..Len(Rooms) : Len(Rooms[i].occupied_by) <= Rooms[i].capacity

\* The CTO Office was filled by a later call and a further call on it failed.
C2_Witness ==
  /\ initialized
  /\ op = [name |-> "assign_employee_to_room", args |-> <<"Visitor", "CTO Office">>]
  /\ ret = FALSE
  /\ \E i \in RoomIndex(Rooms, "CTO Office") :
       /\ Len(Rooms[i].occupied_by) = Rooms[i].capacity
       /\ Rooms[i].occupied_by[Len(Rooms[i].occupied_by)] = "Bobby Chen"

Successes(outcomes, j) == Cardinality({m \in 1..j : outcomes[m]})

\* C3: for a room of capacity c holding k <= c occupants, the calls naming it
\* return True for exactly the first c-k of them and False afterwards (taken
\* from every point j of the room's call history, where k is the number of
\* occupants then); an empty Reception gives 5 successes and then a failure.
C3_FirstFreeSeatsSucceed ==
  /\ \A i \in 1..Len(Rooms) :
       LET c == Rooms[i].capacity
           outcomes == results[Rooms[i].name]
       IN /\ Len(Rooms[i].occupied_by) = Successes(outcomes, Len(outcomes))
          /\ \A j \in 0..Len(outcomes) :
               LET k == Successes(outcomes, j) IN
               /\ k <= c
               /\ \A m \in (j + 1)..Len(outcomes) : outcomes[m] = (m - j <= c - k)
  /\ Len(results["Reception"]) >= 6 =>
       SubSeq(results["Reception"], 1, 6) = <<TRUE, TRUE, TRUE, TRUE, TRUE, FALSE>>

\* Six calls in a row on the empty Reception: five successes, then a failure.
C3_Witness ==
  /\ results["Reception"] = <<TRUE, TRUE, TRUE, TRUE, TRUE, FALSE>>
  /\ op.name = "assign_employee_to_room"
  /\ op.args[2] = "Reception"
  /\ ret = FALSE

\* C4: assign_employee_to_room naming an unknown room or a full room returns
\* False, raises nothing and leaves the room map and every occupant list as
\* they were; get_room of an unknown name (exact match) returns None without
\* raising or mutating.
C4_FailedAssignChangesNothing ==
  [][ /\ ( /\ op'.name = "assign_employee_to_room"
           /\ office_builder # None
           /\ (IsUnknown(op'.args[2]) \/ IsFull(op'.args[2])) )
        => (exc' = NoExc /\ ret' = FALSE /\ office_builder' = office_builder)
      /\ ( /\ op'.name = "get_room"
           /\ office_builder # None
           /\ IsUnknown(op'.args[1]) )
        => (exc' = NoExc /\ ret' = None /\ office_builder' = office_builder)
    ]_vars

\* An assignment to a name differing from a room's only in case has failed.
C4_Witness ==
  /\ initialized
  /\ op = [name |-> "assign_employee_to_room", args |-> <<"Bobby Chen", "reception">>]
  /\ ret = FALSE
  /\ exc = NoExc
  /\ IsUnknown("reception")
  /\ ~IsUnknown("Reception")

\* C5: initialize() on an initialized office mutates nothing: the employees
\* with their task state, the room map with its occupant lists, the
\* initialized flag and projects_completed are the same before and after.
C5_ReinitializeIsNoOp ==
  [][ (initialized /\ op'.name = "initialize")
        => /\ employees' = employees
           /\ office_builder' = office_builder
           /\ initialized' = initialized
           /\ projects_completed' = projects_completed
           /\ exc' = NoExc
    ]_vars

\* A second initialize() after a task was assigned and a seat was taken.
C5_Witness ==
  /\ op.name = "initialize"
  /\ calls >= 4
  /\ shown = << Msg("warning", "Office already initialized!") >>
  /\ \E i \in 1..Len(employees) : Busy(i)
  /\ IsFull("CTO Office")

NamesOf(emps) == [k \in 1..Len(emps) |-> emps[k].name]
LocatedAt(room_name) ==
  NamesOf(SelectSeq(employees, LAMBDA e : e.location = room_name))

\* C6: after initialize() each room's occupant list is, in roster order, the
\* names of the first min(capacity, n) employees located there, n being the
\* number of roster employees with that location (empty when n = 0).
C6_OccupantsAreFirstComers ==
  FreshlyInitialized =>
    \A i \in 1..Len(Rooms) :
      LET here == LocatedAt(Rooms[i].name)
      IN Rooms[i].occupied_by = SubSeq(here, 1, Min(Rooms[i].capacity, Len(here)))

\* After initialize() an overbooked room holds its first comers only and a
\* room nobody is located at is empty.
C6_Witness ==
  /\ initialized
  /\ calls = 1
  /\ \E i \in 1..Len(Rooms) :
       /\ Len(LocatedAt(Rooms[i].name)) > Rooms[i].capacity
       /\ Len(Rooms[i].occupied_by) = Rooms[i].capacity
  /\ \E i \in 1..Len(Rooms) :
       LocatedAt(Rooms[i].name) = <<>> /\ Rooms[i].occupied_by = <<>>

\* C7: a failed assignment neither aborts the pass nor changes an employee:
\* all 47 employees get one attempt each, initialize() ends initialized, and
\* right after it every employee has its fixture location, no task and is
\* available, seated or not.
C7_FailuresAreOnlyReported ==
  initialized =>
    /\ initialized
    /\ Len(employees) = 47
    /\ Len(report) = 47
    /\ \A i \in 1..Len(report) :
         /\ report[i].name = employees[i].name
         /\ report[i].room = employees[i].location
         /\ employees[i].location = create_all_employees[i].location
    /\ FreshlyInitialized =>
         /\ exc = NoExc
         /\ \A i \in 1..Len(employees) :
              employees[i].current_task = None /\ employees[i].available

\* Right after initialize(), an assignment failed and a later one succeeded.
C7_Witness ==
  /\ calls = 1
  /\ initialized
  /\ \E i, j \in 1..Len(report) : i < j /\ ~report[i].ok /\ report[j].ok

\* C8: complete_task() on an employee without a task returns None and leaves
\* the employee as it was, however often it is repeated.
C8_CompleteWithoutTaskIsNoOp ==
  [][ \A i \in 1..Len(employees) :
        (op'.name = "complete_task" /\ op'.args[1] = i /\ ~Busy(i))
          => (exc' = NoExc /\ ret' = None /\ employees' = employees)
    ]_vars

\* complete_task() has returned None on an employee without a task.
C8_Witness ==
  /\ op.name = "complete_task"
  /\ ret = None
  /\ calls >= 3
  /\ ~Busy(op.args[1])
  /\ employees[op.args[1]].available

\* C9: complete_task() returns the task it clears: assign_task(t) makes t the
\* current task (replacing an earlier one), no other call touches it, and
\* complete_task() returns the current task and leaves the employee without
\* a task and available.
C9_CompleteReturnsClearedTask ==
  [][ \A i \in 1..Len(employees) :
        /\ (op'.name = "assign_task" /\ op'.args[1] = i)
             => employees'[i].current_task = Some(op'.args[2])
        /\ (op'.name = "complete_task" /\ op'.args[1] = i)
             => /\ ret' = employees[i].current_task
                /\ employees'[i].current_task = None
                /\ employees'[i].available
        /\ ~(op'.name \in {"assign_task", "complete_task"} /\ op'.args[1] = i)
             => employees'[i].current_task = employees[i].current_task
    ]_vars

\* complete_task() has returned the task "deploy".
C9_Witness ==
  /\ op.name = "complete_task"
  /\ ret = Some("deploy")
  /\ ~Busy(op.args[1])
  /\ employees[op.args[1]].available

\* The position of a letter in the alphabet whatever its case, 0 for any
\* other character.
LetterPos(c) ==
  IF \E k \in 1..Len(UpperCase) : c \in {UpperCase[k], LowerCase[k]}
    THEN CHOOSE k \in 1..Len(UpperCase) : c \in {UpperCase[k], LowerCase[k]}
    ELSE 0

SameIgnoringCase(s, t) ==
  /\ Len(Chars(s)) = Len(Chars(t))
  /\ \A k \in 1..Len(Chars(s)) :
       \/ Chars(s)[k] = Chars(t)[k]
       \/ LetterPos(Chars(s)[k]) > 0 /\ LetterPos(Chars(s)[k]) = LetterPos(Chars(t)[k])

Matches(name) == {i \in 1..Len(employees) : SameIgnoringCase(employees[i].name, name)}

\* C10: find_employee_by_name matches whole names ignoring letter case: it
\* returns the first roster record whose name equals the argument up to case,
\* None when there is none, and arguments differing only in case get the
\* same record.
C10_FindIgnoresCase ==
  /\ op.name = "get_employee" =>
       IF Matches(op.args[1]) = {} THEN ret = None
       ELSE ret = Some(CHOOSE i \in Matches(op.args[1]) :
                         \A j \in Matches(op.args[1]) : i <= j)
  /\ \A s, t \in FindNames :
       SameIgnoringCase(s, t) =>
         find_employee_by_name(employees, s) = find_employee_by_name(employees, t)

\* "marcus chen" has found Marcus Chen, the first record of the fixture roster.
C10_Witness ==
  /\ Len(employees) = 47
  /\ op = [name |-> "get_employee", args |-> <<"marcus chen">>]
  /\ ret = Some(1)
  /\ employees[1].name = "Marcus Chen"

Increasing(seq) == \A k \in 1..(Len(seq) - 1) : seq[k] < seq[k + 1]
Elements(seq) == {seq[k] : k \in 1..Len(seq)}

\* C11: get_team_members(team) returns all and only the employees whose team
\* is the argument, each once and in roster order; the empty list for a team
\* without members, and no error.
C11_TeamMembersInOrder ==
  op.name = "get_team" =>
    /\ exc = NoExc
    /\ Increasing(ret)
    /\ Elements(ret) = {i \in 1..Len(employees) : employees[i].team = op.args[1]}

\* get_team(FRONTEND) on the fixture roster has returned its six members.
C11_Witness ==
  /\ Len(employees) = 47
  /\ op = [name |-> "get_team", args |-> <<"FRONTEND">>]
  /\ ret = <<2, 3, 4, 5, 6, 32>>

\* C12: find_experts(skills) returns exactly the employees whose skills share
\* at least one element with the requested skills, each once and in roster
\* order; nothing, and no error, when no skill is requested.
C12_ExpertsShareASkill ==
  op.name = "find_experts" =>
    /\ exc = NoExc
    /\ Increasing(ret)
    /\ Elements(ret) =
         {i \in 1..Len(employees) :
            Elements(employees[i].skills) \cap Elements(op.args[1]) # {}}
    /\ op.args[1] = <<>> => ret = <<>>

\* find_experts([PYTHON, JAVASCRIPT]) on the fixture roster has returned Bobby
\* Chen, who has both skills, next to employees with one of them.
C12_Witness ==
  /\ Len(employees) = 47
  /\ op = [name |-> "find_experts", args |-> << <<"PYTHON", "JAVASCRIPT">> >>]
  /\ 31 \in Elements(ret)
  /\ {"PYTHON", "JAVASCRIPT"} \subseteq Elements(employees[31].skills)
  /\ \E i \in Elements(ret) : "PYTHON" \notin Elements(employees[i].skills)
  /\ Len(ret) < 47

\* C13: whatever assign_task/complete_task calls came before,
\* get_available_employees() returns exactly the employees whose current_task
\* is None, in roster order.
C13_AvailableAreTheIdle ==
  op.name = "get_available_employees" =>
    /\ exc = NoExc
    /\ Increasing(ret)
    /\ Elements(ret) = {i \in 1..Len(employees) : employees[i].current_task = None}

\* The query ran on the fixture roster, late in a run, while one employee was
\* working and another was idle: the first is left out, the second is listed.
C13_Witness ==
  /\ op.name = "get_available_employees"
  /\ Len(employees) = 47
  /\ calls >= 5
  /\ \E i, j \in Driven :
       /\ employees[i].current_task # None /\ i \notin Elements(ret)
       /\ employees[j].current_task = None /\ j \in Elements(ret)
  /\ Len(ret) = 46

GuardedOps == {"show_office_layout", "show_employee_directory", "show_team",
               "office_tour", "start_project", "emergency_meeting"}
QueryOps == {"get_employee", "get_team", "get_available_employees", "find_experts"}
DisplayAndQueryOps == GuardedOps \cup QueryOps \cup {"reception_greeting", "status"}

ReportsNotInitialized(messages) ==
  /\ Len(messages) = 1
  /\ messages[1].level = "error"
  /\ messages[1].text \in {"Office not initialized yet!",
                           "Office not initialized yet! Please run initialize() first."}

\* C14 as stated: before the first initialization every display and query
\* operation of NexusOffice reports a not-initialized error.
C14_Original ==
  (~initialized /\ op.name \in DisplayAndQueryOps) => ReportsNotInitialized(shown)

\* C14, amended: before the first initialization the six guarded operations
\* (show_office_layout, show_employee_directory, show_team, office_tour,
\* start_project, emergency_meeting) report a not-initialized error and return
\* None; status() displays nothing and returns initialized = False with the
\* message "Office not initialized"; reception_greeting() prints its greeting;
\* get_employee returns None and get_team, get_available_employees and
\* find_experts return an empty list without reporting anything; none of them
\* raises or changes the office, the roster, the flag or the counter.
C14_GuardedOpsReportNotInitialized ==
  [][ (~initialized /\ op'.name \in DisplayAndQueryOps) =>
        /\ exc' = NoExc
        /\ UNCHANGED <<office_builder, employees, initialized, projects_completed>>
        /\ op'.name \in GuardedOps =>
             ret' = None /\ ReportsNotInitialized(shown')
        /\ op'.name = "status" =>
             /\ shown' = <<>>
             /\ ret' = [initialized |-> FALSE, message |-> "Office not initialized"]
        /\ op'.name = "reception_greeting" =>
             /\ ret' = None
             /\ Len(shown') = 1 /\ shown'[1].level = "dialogue"
        /\ op'.name = "get_employee" => ret' = None /\ shown' = <<>>
        /\ op'.name \in QueryOps \ {"get_employee"} => ret' = <<>> /\ shown' = <<>>
    ]_vars

\* Before initialization, and after an earlier call, show_team has just
\* reported the error on the still empty office.
C14_Witness ==
  /\ ~initialized
  /\ calls >= 2
  /\ op.name = "show_team"
  /\ shown = <<NotInitialized>>
  /\ employees = <<>> /\ office_builder = None

WarRoom == CHOOSE i \in 1..Len(Rooms) : Rooms[i].name = "The War Room"

\* C15: start_project and emergency_meeting, before or after initialization and
\* whatever their arguments, leave the roster, every employee's task and
\* availability, every room's occupant list, the initialized flag and
\* projects_completed as they were; emergency_meeting seats nobody in The War
\* Room.
C15_ProjectAndMeetingAreStateless ==
  [][ op'.name \in {"start_project", "emergency_meeting"} =>
        /\ exc' = NoExc
        /\ ret' = None
        /\ employees' = employees
        /\ office_builder' = office_builder
        /\ initialized' = initialized
        /\ projects_completed' = projects_completed
    ]_vars

\* An emergency meeting was announced for all 47 employees in the initialized
\* office, after a project had been started and while somebody was working:
\* The War Room is still empty.
C15_Witness ==
  /\ initialized
  /\ op.name = "emergency_meeting"
  /\ projects_started >= 1
  /\ \E i \in Driven : Busy(i)
  /\ shown[Len(shown)] = Count("print", "The War Room - All Hands Meeting", 47)
  /\ Rooms[WarRoom].occupied_by = <<>>

\* The sum of the numbers in the sequence sizes.
SumOver(sizes) ==
  Cardinality(UNION {{<<k, j>> : j \in 1..sizes[k]} : k \in 1..Len(sizes)})

TeamsOf(i) ==
  {k \in 1..Len(Teams) : i \in Elements(get_team_members(employees, Teams[k]))}

Reported(text) == SelectSeq(shown, LAMBDA m : m.text = text)

TeamLines == SelectSeq(shown, LAMBDA m : m.level = "team")

\* C16: once initialized the roster holds 47 employees with pairwise distinct
\* names; when initialize() returns, every employee is a member of exactly one
\* team, the member counts over all Team values sum to 47 and so do the team
\* counts of the printed summary, and the total capacity build() prints is the
\* sum of the capacities of the rooms in the room map.
C16_FixtureTotals ==
  initialized =>
    /\ Len(employees) = 47
    /\ \A i, j \in 1..Len(employees) : i # j => employees[i].name # employees[j].name
    /\ FreshlyInitialized =>
         /\ \A i \in 1..Len(employees) : Cardinality(TeamsOf(i)) = 1
         /\ SumOver([k \in 1..Len(Teams) |->
                       Len(get_team_members(employees, Teams[k]))]) = 47
         /\ SumOver([k \in 1..Len(TeamLines) |-> TeamLines[k].n]) = 47
         /\ Len(Reported("Total capacity")) = 1
         /\ Reported("Total capacity")[1].n
              = SumOver([i \in 1..Len(Rooms) |-> Rooms[i].capacity])

\* initialize() has just printed 47 employees in twelve teams, 18 rooms and
\* a total capacity of 99.
C16_Witness ==
  /\ FreshlyInitialized
  /\ Reported("Total Employees") = << Count("office_status", "Total Employees", 47) >>
  /\ Reported("Total rooms built") = << Count("print", "Total rooms built", 18) >>
  /\ Reported("Total capacity") = << Count("print", "Total capacity", 99) >>
  /\ Len(TeamLines) = 12
  /\ \E k \in 1..Len(TeamLines) : TeamLines[k] = Count("team", "FRONTEND", 6)

\* C17: projects_completed is 0 in every reachable state, and status() on the
\* initialized office reports projects_completed = 0 however many projects
\* were started.
C17_ProjectsCompletedStaysZero ==
  /\ projects_completed = 0
  /\ (op.name = "status" /\ initialized) =>
       /\ exc = NoExc
       /\ ret.initialized
       /\ ret.projects_completed = 0

\* status() was asked after two projects had been started in the initialized
\* office.
C17_Witness ==
  /\ initialized
  /\ projects_started >= 2
  /\ op.name = "status"
  /\ ret.projects_completed = 0
  /\ ret.total_employees = 47

Occupants(rms) == [i \in 1..Len(rms) |-> rms[i].occupied_by]
Locations(emps) == [i \in 1..Len(emps) |-> emps[i].location]

\* C18: once the office is built, occupancy is only ever appended to. Every
\* operation leaves every employee's location unchanged; a successful
\* assign_employee_to_room appends exactly its name at the end of exactly one
\* room's occupant list; every other call (assign_task, complete_task, the
\* queries and displays, a failed assignment, a repeated initialize) leaves
\* all occupant lists as they were.
C18_OccupancyIsAppendOnly ==
  [][ office_builder # None =>
        /\ office_builder' # None
        /\ Locations(employees') = Locations(employees)
        /\ Len(Rooms') = Len(Rooms)
        /\ IF op'.name = "assign_employee_to_room" /\ exc' = NoExc /\ ret' = TRUE
             THEN \E r \in 1..Len(Rooms) :
                    /\ Rooms'[r].occupied_by = Append(Rooms[r].occupied_by, op'.args[1])
                    /\ \A q \in 1..Len(Rooms) \ {r} :
                         Rooms'[q].occupied_by = Rooms[q].occupied_by
             ELSE Occupants(Rooms') = Occupants(Rooms)
    ]_vars

\* A name was appended behind the occupant already recorded for the CTO
\* Office, an employee located elsewhere was given a task before that, and the
\* lists initialize() filled are otherwise as it left them.
C18_Witness ==
  /\ op = [name |-> "assign_employee_to_room", args |-> <<"Bobby Chen", "CTO Office">>]
  /\ ret = TRUE
  /\ \E r \in 1..Len(Rooms) :
       /\ Rooms[r].name = "CTO Office"
       /\ Rooms[r].occupied_by = <<"Alexandra Morrison", "Bobby Chen">>
  /\ \E i \in Driven : Busy(i)
  /\ employees[31].location = "Frontend Team Pod"

Capacities(rms) == [i \in 1..Len(rms) |-> [name |-> rms[i].name, capacity |-> rms[i].capacity]]

\* C19: after initialization the collections are fixed: in every later state
\* the roster has its 47 employees with the names initialize() gave them, the
\* room map has its 18 rooms with the names and capacities build() gave them,
\* and the total capacity is 99.
C19_CollectionsAreFixed ==
  initialized =>
    /\ office_builder # None
    /\ Len(employees) = 47
    /\ NamesOf(employees) = NamesOf(create_all_employees)
    /\ Len(Rooms) = 18
    /\ Capacities(Rooms) = Capacities(build(OfficeBuilder).rooms)
    /\ SumOver([i \in 1..Len(Rooms) |-> Rooms[i].capacity]) = 99

\* Late in a run, an assignment to a room that does not exist has just failed
\* and one to an existing room has succeeded before it; nothing was added.
C19_Witness ==
  /\ initialized
  /\ calls >= 4
  /\ op = [name |-> "assign_employee_to_room", args |-> <<"Visitor", "Lobby">>]
  /\ ret = FALSE
  /\ results["CTO Office"] # <<>>
  /\ Len(Rooms) = 18
  /\ Len(employees) = 47

Times(employee_name, occupied_by) ==
  Len(SelectSeq(occupied_by, LAMBDA n : n = employee_name))

\* C20: assign_employee_to_room succeeds for any name whenever the room exists
\* and is below capacity, whether or not the name is in the roster and whether
\* or not it already occupies that or another room: it returns True and
\* appends the name to the room's list.
C20_OccupancyIsByNameOnly ==
  [][ \A r \in 1..Len(Rooms) :
        ( /\ op'.name = "assign_employee_to_room"
          /\ Rooms[r].name = op'.args[2]
          /\ Len(Rooms[r].occupied_by) < Rooms[r].capacity )
        => /\ exc' = NoExc
           /\ ret' = TRUE
           /\ Rooms'[r].occupied_by = Append(Rooms[r].occupied_by, op'.args[1])
    ]_vars

\* The Quiet Room lists a stranger and, twice, an employee who is also listed
\* in the Frontend Team Pod since initialize().
C20_Witness ==
  /\ "Visitor" \notin Elements(NamesOf(employees))
  /\ "Bobby Chen" \in Elements(NamesOf(employees))
  /\ op = [name |-> "assign_employee_to_room", args |-> <<"Bobby Chen", "Quiet Room">>]
  /\ ret = TRUE
  /\ \E q, f \in 1..Len(Rooms) :
       /\ Rooms[q].name = "Quiet Room"
       /\ Times("Bobby Chen", Rooms[q].occupied_by) = 2
       /\ Times("Visitor", Rooms[q].occupied_by) = 1
       /\ Rooms[f].name = "Frontend Team Pod"
       /\ Times("Bobby Chen", Rooms[f].occupied_by) = 1

AllIdle == \A t \in Threads : pc[t] = "idle"
OverCapacity == \E i \in 1..Len(Rooms) : Len(Rooms[i].occupied_by) > Rooms[i].capacity
Inconsistent ==
  \E i \in 1..Len(employees) :
    employees[i].available # (employees[i].current_task = None)

\* C21: with exclusive access per call, no room ever holds more names than
\* its capacity and, whenever no call is in progress, every employee has
\* available == (current_task is None).  Without it, callers interleaving
\* between the capacity check and the append can overfill a room, by at most
\* one name per additional caller, and callers interleaving between the two
\* field writes of assign_task and complete_task can leave the employee
\* inconsistent after all calls have returned (see the witness).
C21_RacesNeedInterleaving ==
  /\ exclusive => ~OverCapacity
  /\ (exclusive /\ AllIdle) => ~Inconsistent
  /\ \A i \in 1..Len(Rooms) :
       Len(Rooms[i].occupied_by) <= Rooms[i].capacity + (NumThreads - 1)

\* Without exclusive access and with every call finished: the Server Room
\* holds more names than its capacity and the employee's available flag
\* disagrees with its current_task.
C21_Witness ==
  /\ ~exclusive
  /\ AllIdle
  /\ OverCapacity
  /\ Inconsistent

RosterNames == Elements(NamesOf(employees))

\* C22: right after initialize() every roster name occurs in at most one
\* room's occupant list and at most once in it, a name is listed in a room
\* only if the room is the location of the employee of that name, and every
\* listed name is the name of a roster employee.
C22_OccupantsSitWhereLocated ==
  FreshlyInitialized =>
    /\ \A e \in 1..Len(employees) :
         /\ SumOver([i \in 1..Len(Rooms) |->
                       Times(employees[e].name, Rooms[i].occupied_by)]) <= 1
         /\ \A i \in 1..Len(Rooms) :
              employees[e].name \in Elements(Rooms[i].occupied_by)
                => Rooms[i].name = employees[e].location
    /\ \A i \in 1..Len(Rooms) : Elements(Rooms[i].occupied_by) \subseteq RosterNames

\* initialize() has just seated Bobby Chen once, in the Frontend Team Pod, and
\* Michelle Torres, whose room was full, nowhere.
C22_Witness ==
  /\ FreshlyInitialized
  /\ SumOver([i \in 1..Len(Rooms) |-> Times("Bobby Chen", Rooms[i].occupied_by)]) = 1
  /\ \E i \in 1..Len(Rooms) :
       /\ Rooms[i].name = "Frontend Team Pod"
       /\ "Bobby Chen" \in Elements(Rooms[i].occupied_by)
  /\ "Michelle Torres" \in RosterNames
  /\ \A i \in 1..Len(Rooms) : "Michelle Torres" \notin Elements(Rooms[i].occupied_by)

Failures == SelectSeq(report, LAMBDA line : ~line.ok)
Seated == SelectSeq(report, LAMBDA line : line.ok)

\* C23: right after initialize() every employee's location names a room of
\* the built room map, every failed assignment of the pass named a room that
\* exists and is full, 34 of the 47 employees are listed in a room and 13 are
\* not.
C23_FailuresAreCapacityFailures ==
  FreshlyInitialized =>
    /\ \A e \in 1..Len(employees) : ~IsUnknown(employees[e].location)
    /\ \A k \in 1..Len(Failures) :
         ~IsUnknown(Failures[k].room) /\ IsFull(Failures[k].room)
    /\ Len(Seated) = 34
    /\ Len(Failures) = 13
    /\ SumOver([i \in 1..Len(Rooms) |-> Len(Rooms[i].occupied_by)]) = 34
    /\ Cardinality({e \in 1..Len(employees) :
                      \A i \in 1..Len(Rooms) :
                        employees[e].name \notin Elements(Rooms[i].occupied_by)}) = 13

\* initialize() has just reported Michelle Torres's room as full: the room
\* exists and holds as many names as its capacity.
C23_Witness ==
  /\ FreshlyInitialized
  /\ \E k \in 1..Len(Failures) :
       /\ Failures[k].name = "Michelle Torres"
       /\ \E i \in 1..Len(Rooms) :
            /\ Rooms[i].name = Failures[k].room
            /\ Len(Rooms[i].occupied_by) = Rooms[i].capacity
            /\ Rooms[i].capacity > 0

\* The office is complete: built rooms, a roster, and one assignment attempt
\* made for every employee of the roster.
Complete ==
  /\ office_builder # None
  /\ office_builder[1].built
  /\ Len(Rooms) > 0
  /\ employees # <<>>
  /\ Len(report) = Len(employees)

\* C24: initialized is False at the start, never returns to False, becomes
\* True only in initialize() and only together with a built room map, a
\* roster and a finished assignment pass; whenever it is True the
\* office_builder is set and built and the roster is non-empty, and no
\* operation, before or after, raises for an unset office_builder.
C24_InitializedImpliesComplete ==
  [][ /\ calls = 0 => ~initialized
      /\ initialized => initialized'
      /\ (~initialized /\ initialized') => op'.name = "initialize"
      /\ initialized' => Complete'
      /\ exc' = NoExc
    ]_vars

\* A guarded operation that reads the room map has just shown all 18 rooms,
\* after at least two earlier calls.
C24_Witness ==
  /\ initialized
  /\ calls >= 3
  /\ op.name = "show_office_layout"
  /\ exc = NoExc
  /\ shown = << Count("display_office", "NEXUS SOFTWARE SOLUTIONS - OFFICE LAYOUT", 18) >>

\* C25: build() on an OfficeBuilder that is already built changes nothing:
\* the room map with every capacity and occupant list, common_areas, the
\* construction log and the built flag are as before.
C25_BuildIsIdempotent ==
  [][ (op'.name = "build" /\ office_builder # None /\ office_builder[1].built) =>
        /\ exc' = NoExc
        /\ office_builder'[1].rooms = office_builder[1].rooms
        /\ office_builder'[1].common_areas = office_builder[1].common_areas
        /\ office_builder'[1].construction_log = office_builder[1].construction_log
        /\ office_builder'[1].built
    ]_vars

\* build() was called again on the built office after two names had been
\* recorded in the Reception: they are still there, and the log still has
\* its nine entries.
C25_Witness ==
  /\ op.name = "build"
  /\ office_builder # None
  /\ office_builder[1].built
  /\ Len(office_builder[1].construction_log) = 9
  /\ \E i \in 1..Len(Rooms) :
       Rooms[i].name = "Reception" /\ Len(Rooms[i].occupied_by) = 2

====
